---- MODULE Spec2Model ----
(***************************************************************************)
(* Smart-Task-Assistant: the task store and its due-date resolver.         *)
(*                                                                         *)
(* Two servers implement the same tool surface:                            *)
(*   src/backend/server.py  tasks kept in a MongoDB collection             *)
(*   src/server.py          tasks kept in the JSON file tasks.json         *)
(* A behaviour runs one of them (variable program); every step is one      *)
(* tool call, executed to completion before the next one starts.           *)
(*                                                                         *)
(* Values.  A text is a sequence of word tokens (None and "" are both the  *)
(* empty sequence: the code only tests their truthiness).  A datetime is a *)
(* number of clock ticks since 2025-10-01T00:00, TicksPerDay ticks a day.  *)
(* A "%Y-%m-%d" string is the tuple <<year, month, day>>: Python compares  *)
(* these zero-padded strings lexicographically, as LexLess compares the    *)
(* tuples.  None in a date field is <<>>.  A task is a record whose        *)
(* completed_at key exists only once complete_task has set it.  The _id    *)
(* key MongoDB adds to a document is left out: queries project it away.    *)
(***************************************************************************)
EXTENDS Integers, Sequences, FiniteSets, TLC

(* ------------------------------ bounds --------------------------------- *)
MaxTasks == 2      \* callers stop adding once the store holds MaxTasks tasks
MaxId == 3         \* callers stop adding once the next id would exceed MaxId
MaxTicks == 1      \* the clock advances at most MaxTicks ticks past StartClock

(* ----------------------------- calendar -------------------------------- *)
TicksPerDay == 2
StartDay == 14                         \* 2025-10-15, a Wednesday
StartClock == StartDay * TicksPerDay

None == <<>>

\* datetime.weekday(): Monday = 0 ... Sunday = 6 (2025-10-01 is a Wednesday)
weekday(dt) == ((dt \div TicksPerDay) + 2) % 7

\* timedelta(days = n) added to a datetime
PlusDays(dt, n) == dt + n * TicksPerDay

\* dt.strftime("%Y-%m-%d") for 2025-10-01 .. 2026-01-31
strftime(dt) ==
    LET d == dt \div TicksPerDay IN
    IF d < 31 THEN <<2025, 10, d + 1>>
    ELSE IF d < 61 THEN <<2025, 11, d - 30>>
    ELSE IF d < 92 THEN <<2025, 12, d - 60>>
    ELSE <<2026, 1, d - 91>>

\* datetime.strptime(s, "%Y-%m-%d"): midnight of that day
strptime(s) ==
    LET d == IF s[1] = 2026 THEN 91 + s[3]
             ELSE IF s[2] = 10 THEN s[3] - 1
             ELSE IF s[2] = 11 THEN 30 + s[3]
             ELSE 60 + s[3]
    IN d * TicksPerDay

\* dt.isoformat(): the date followed by the time of day
isoformat(dt) == strftime(dt) \o <<dt % TicksPerDay>>

\* s < t on two "%Y-%m-%d" strings (lexicographic)
LexLess(s, t) ==
    \/ s[1] < t[1]
    \/ s[1] = t[1] /\ s[2] < t[2]
    \/ s[1] = t[1] /\ s[2] = t[2] /\ s[3] < t[3]

(* ------------------------------- texts --------------------------------- *)
\* str.lower() on one token
LowerToken(w) ==
    CASE w = "Next" -> "next"
      [] w = "THIS" -> "this"
      [] w = "Week" -> "week"
      [] w = "Friday" -> "friday"
      [] w = "Monday" -> "monday"
      [] w = "End" -> "end"
      [] w = "IN" -> "in"
      [] w = "Weeks" -> "weeks"
      [] OTHER -> w

\* date_string.lower().strip()
Lower(text) == [i \in DOMAIN text |-> LowerToken(text[i])]

\* re.search(r'\b<phrase>\b', text): the phrase occurs as whole words at
\* position i
MatchAt(text, phrase, i) ==
    /\ i + Len(phrase) - 1 <= Len(text)
    /\ \A j \in 1..Len(phrase) : text[i + j - 1] = phrase[j]

Search(text, phrase) == \E i \in 1..Len(text) : MatchAt(text, phrase, i)

\* mutant of SearchAny: the phrase has to be the whole text
SearchAny_whole(text, phrases) == text \in phrases

SearchAny(text, phrases) == \E p \in phrases : Search(text, p)

\* \d+ tokens and their int() value
NumberTokens == {"0", "1", "2", "3", "500000"}
IntOf(w) ==
    CASE w = "0" -> 0 [] w = "1" -> 1 [] w = "2" -> 2 [] w = "3" -> 3
      [] w = "500000" -> 500000

\* the "YYYY-MM-DD" tokens the texts use, with the date they spell
IsoTokens == {"2025-10-10", "2025-10-15", "2025-10-20"}
IsoOf(w) ==
    CASE w = "2025-10-10" -> <<2025, 10, 10>>
      [] w = "2025-10-15" -> <<2025, 10, 15>>
      [] w = "2025-10-20" -> <<2025, 10, 20>>


(* ------------------------ dateparser (library) -------------------------- *)
\* dateparser.parse(text, settings = {PREFER_DATES_FROM: future,
\* RELATIVE_BASE: base}): <<datetime>> for the texts it understands, None
\* otherwise.  Matching is case-insensitive.
date_parse(text, base) ==
    LET t == Lower(text) IN
    IF t = <<"today">> THEN <<base>>
    ELSE IF t = <<"tomorrow">> THEN <<PlusDays(base, 1)>>
    ELSE IF t = <<"next", "week">> THEN <<PlusDays(base, 7)>>
    ELSE IF Len(t) = 1 /\ t[1] \in IsoTokens THEN <<strptime(IsoOf(t[1]))>>
    ELSE None

\* dateparser.search.search_dates(text): the dates found inside a longer
\* text, in text order, each as <<datetime>>
search_dates(text, base) ==
    LET hit(i) == date_parse(<<text[i]>>, base)
        idx == {i \in DOMAIN text : hit(i) # None}
    IN  IF idx = {} THEN None
        ELSE LET first == CHOOSE i \in idx : \A j \in idx : i <= j
             IN  hit(first)

(* --------------------- src/backend/server.py resolver ------------------- *)
weekday_map == <<
    <<"monday", 0>>, <<"mon", 0>>,
    <<"tuesday", 1>>, <<"tue", 1>>, <<"tues", 1>>,
    <<"wednesday", 2>>, <<"wed", 2>>,
    <<"thursday", 3>>, <<"thu", 3>>, <<"thur", 3>>, <<"thurs", 3>>,
    <<"friday", 4>>, <<"fri", 4>>,
    <<"saturday", 5>>, <<"sat", 5>>,
    <<"sunday", 6>>, <<"sun", 6>> >>

\* the first entry of weekday_map, in dict order, whose "<prefix> <name>"
\* occurs in the text; 0 when there is none
FirstWeekday(text, prefix) ==
    LET hits == {k \in DOMAIN weekday_map :
                    Search(text, <<prefix, weekday_map[k][1]>>)}
    IN  IF hits = {} THEN 0
        ELSE CHOOSE k \in hits : \A j \in hits : k <= j

\* re.search(r'\bin (\d+) weeks?\b', text): position of the leftmost match,
\* 0 when there is none
WeeksMatch(text) ==
    LET hits == {i \in DOMAIN text :
                    /\ i + 2 <= Len(text)
                    /\ text[i] = "in"
                    /\ text[i + 1] \in NumberTokens
                    /\ text[i + 2] \in {"week", "weeks"}}
    IN  IF hits = {} THEN 0
        ELSE CHOOSE i \in hits : \A j \in hits : i <= j

\* date.max (9999-12-31) in days since 2025-10-01: a datetime past it raises
MaxDate == 2912534

\* what parse_due_date yields when the datetime arithmetic raises
OverflowError == <<"OverflowError">>

\* days_until_next_monday = (7 - current_weekday) if current_weekday != 0
\* else 7
days_until_next_monday(current_weekday) ==
    IF current_weekday # 0 THEN 7 - current_weekday ELSE 7

\* mutant of next_week: Monday is treated like the other days
next_week_monday_is_today(now) == strftime(PlusDays(now, (7 - weekday(now)) % 7))

\* "next week", "beginning of next week", "start of next week"
next_week(now) ==
    strftime(PlusDays(now, days_until_next_monday(weekday(now))))

\* "end of next week": next Monday + 4 days
end_of_next_week(now) ==
    LET next_monday == PlusDays(now, days_until_next_monday(weekday(now)))
    IN  strftime(PlusDays(next_monday, 4))

\* mutant of this_week: on a Monday the previous Monday is taken
this_week_previous(now) ==
    strftime(PlusDays(now, 0 - (IF weekday(now) = 0 THEN 7 ELSE weekday(now))))

\* "this week", "beginning of this week", "start of this week"
this_week(now) ==
    IF weekday(now) = 0 THEN strftime(now)
    ELSE strftime(PlusDays(now, 0 - weekday(now)))

\* mutant of end_of_week: the weekend is not rolled forward
end_of_week_past_friday(now) == strftime(PlusDays(now, 4 - weekday(now)))

\* "end of week", "end of this week"
end_of_week(now) ==
    IF weekday(now) <= 4
    THEN strftime(PlusDays(now, 4 - weekday(now)))
    ELSE LET next_monday == PlusDays(now, 7 - weekday(now))
         IN  strftime(PlusDays(next_monday, 4))

\* "in N weeks": now + timedelta(weeks = num_weeks), which raises
\* OverflowError past date.max
in_weeks(now, num_weeks) ==
    IF (now \div TicksPerDay) + 7 * num_weeks > MaxDate THEN OverflowError
    ELSE strftime(PlusDays(now, 7 * num_weeks))

\* mutant of next_weekday: today counts as the next occurrence
next_weekday_allows_today(now, day_num) ==
    strftime(PlusDays(now, (day_num - weekday(now)) % 7))

\* "next <weekday>"
next_weekday(now, day_num) ==
    LET days_ahead == (day_num - weekday(now)) % 7
    IN  strftime(PlusDays(now, IF days_ahead = 0 THEN 7 ELSE days_ahead))

\* mutant of this_weekday: a day already passed is taken from this week
this_weekday_no_wrap(now, day_num) ==
    strftime(PlusDays(now, day_num - weekday(now)))

\* "this <weekday>"
this_weekday(now, day_num) ==
    IF weekday(now) = day_num THEN strftime(now)
    ELSE IF weekday(now) < day_num
         THEN strftime(PlusDays(now, day_num - weekday(now)))
         ELSE strftime(PlusDays(now, (7 - weekday(now)) + day_num))

\* parse_due_date of src/backend/server.py, now = datetime.now()
parse_due_date(date_string, now) ==
    LET date_string_lower == Lower(date_string)
        weeks_match == WeeksMatch(date_string_lower)
        next_day == FirstWeekday(date_string_lower, "next")
        this_day == FirstWeekday(date_string_lower, "this")
        parsed_date == date_parse(date_string, now)
        dates == search_dates(date_string, now)
    IN
    IF date_string = <<>> THEN None
    ELSE IF SearchAny(date_string_lower,
                      {<<"next", "week">>,
                       <<"beginning", "of", "next", "week">>,
                       <<"start", "of", "next", "week">>})
        THEN next_week(now)
    ELSE IF Search(date_string_lower, <<"end", "of", "next", "week">>)
        THEN end_of_next_week(now)
    ELSE IF SearchAny(date_string_lower,
                      {<<"this", "week">>,
                       <<"beginning", "of", "this", "week">>,
                       <<"start", "of", "this", "week">>})
        THEN this_week(now)
    ELSE IF SearchAny(date_string_lower,
                      {<<"end", "of", "week">>, <<"end", "of", "this", "week">>})
        THEN end_of_week(now)
    ELSE IF weeks_match # 0
        THEN in_weeks(now, IntOf(date_string_lower[weeks_match + 1]))
    ELSE IF next_day # 0 THEN next_weekday(now, weekday_map[next_day][2])
    ELSE IF this_day # 0 THEN this_weekday(now, weekday_map[this_day][2])
    ELSE IF parsed_date # None THEN strftime(parsed_date[1])
    ELSE IF dates # None THEN strftime(dates[1])
    ELSE None

(* ------------------------- src/server.py resolver ----------------------- *)
\* parse_due_date of src/server.py: dateparser only
parse_due_date_json(date_string, now) ==
    LET parsed_date == date_parse(date_string, now)
        dates == search_dates(date_string, now)
    IN
    IF date_string = <<>> THEN None
    ELSE IF parsed_date # None THEN strftime(parsed_date[1])
    ELSE IF dates # None THEN strftime(dates[1])
    ELSE None

(* ------------------------------- state ---------------------------------- *)
VARIABLES
    program,            \* which server runs: "mongo" (src/backend/server.py)
                        \* or "json" (src/server.py)
    tasks_collection,   \* the documents of db["tasks"], in insertion order
    tasks_json,         \* the array stored in tasks.json
    clock,              \* what datetime.now() returned last
    call,               \* the last tool call: its name and arguments
    result,             \* what the last tool call returned
    deleted_ids,        \* history: the ids of the tasks deleted so far
    procs,              \* the tool calls in flight when server processes run
                        \* side by side, one per process: how far each has
                        \* come and what it has read; <<>> with one server
    begun               \* history: the store when the calls in flight began

vars == <<program, tasks_collection, tasks_json, clock, call, result,
          deleted_ids, procs, begun>>

\* the server processes that share one store
Procs == {"p1", "p2"}

\* the server processes wait for a call
Idle == [p \in Procs |-> [pc |-> "idle"]]

Titles == {"a"}

\* the due-date texts a caller passes to add_task
DueTexts == {<<>>, <<"tomorrow">>, <<"xyzzy">>}

\* the task_id arguments a caller passes: an int, or a string
TaskIdInputs ==
    {<<"int", k>> : k \in 1..MaxId} \cup {<<"str", "abc">>}

\* int(task_id): <<n>>, or <<>> when int() raises ValueError
int(task_id) ==
    IF task_id[1] = "int" THEN <<task_id[2]>>
    ELSE IF task_id[2] \in NumberTokens THEN <<IntOf(task_id[2])>>
    ELSE <<>>

\* what datetime.now() can return after it returned from: time passes, never
\* backwards
Readings(from) == from..(StartClock + MaxTicks)

(* ------------------------- collection helpers --------------------------- *)
\* index of the first element of s with the given id, 0 when there is none
FirstWithId(s, id) ==
    LET hits == {i \in DOMAIN s : "id" \in DOMAIN s[i] /\ s[i].id = id}
    IN  IF hits = {} THEN 0
        ELSE CHOOSE i \in hits : \A j \in hits : i <= j

\* s without its k-th element
RemoveAt(s, k) == [i \in 1..(Len(s) - 1) |-> IF i < k THEN s[i] ELSE s[i + 1]]

HasId(d) == "id" \in DOMAIN d

\* cursor.sort("id", direction): direction 1 ascending, -1 descending;
\* documents with equal ids keep their insertion order
RECURSIVE sort(_, _)
sort(s, direction) ==
    IF s = <<>> THEN <<>>
    ELSE LET before(i, j) == IF direction = 1 THEN s[i].id <= s[j].id
                             ELSE s[i].id >= s[j].id
             firsts == {i \in DOMAIN s : \A j \in DOMAIN s : before(i, j)}
             k == CHOOSE i \in firsts : \A j \in firsts : i <= j
         IN  <<s[k]>> \o sort(RemoveAt(s, k), direction)

\* mutant of get_next_task_id: the number of documents plus one
get_next_task_id_count(collection) == Len(collection) + 1

\* mutant of get_next_task_id: the sort runs ascending
get_next_task_id_ascending(collection) ==
    LET found == sort(SelectSeq(collection, HasId), 1)
    IN  IF found # <<>> THEN found[1].id + 1 ELSE 1

\* get_next_task_id: find_one(filter = id exists, sort = [("id", -1)])
get_next_task_id(collection) ==
    LET found == sort(SelectSeq(collection, HasId), 0 - 1)
    IN  IF found # <<>> THEN found[1].id + 1 ELSE 1

\* mutant of SetDone: completed_at is not stamped
SetDone_unstamped(t, stamp) == [t EXCEPT !.done = TRUE]

\* mutant of SetDone: the flag is flipped instead of set
SetDone_toggled(t, stamp) ==
    [k \in DOMAIN t \cup {"done", "completed_at"} |->
        IF k = "done" THEN ~t.done
        ELSE IF k = "completed_at" THEN stamp
        ELSE t[k]]

\* mutant of SetDone: the title is cleared along with the update
SetDone_retitled(t, stamp) ==
    [k \in DOMAIN t \cup {"done", "completed_at"} |->
        IF k = "done" THEN TRUE
        ELSE IF k = "completed_at" THEN stamp
        ELSE IF k = "title" THEN ""
        ELSE t[k]]

\* mutant of SetDone: a completed_at that is already there is kept
SetDone_first_stamp(t, stamp) ==
    [k \in DOMAIN t \cup {"done", "completed_at"} |->
        IF k = "done" THEN TRUE
        ELSE IF k = "completed_at" /\ "completed_at" \notin DOMAIN t THEN stamp
        ELSE t[k]]

\* "$set": {done: True, completed_at: stamp} on one document
SetDone(t, stamp) ==
    [k \in DOMAIN t \cup {"done", "completed_at"} |->
        IF k = "done" THEN TRUE
        ELSE IF k = "completed_at" THEN stamp
        ELSE t[k]]

NotFound(task_id) == [error |-> <<"Task with ID not found", task_id>>]

(* ------------------- src/backend/server.py: the tools ------------------- *)
\* mutant of Unresolved: the failed resolution goes unnoticed
Unresolved_ignored(due_date, parsed_due_date) == FALSE

\* mutant of Unresolved: a missing due-date text counts as not understood
Unresolved_empty(due_date, parsed_due_date) == parsed_due_date = None

\* "if due_date: ... if not parsed_due_date": a due-date text was given and
\* parse_due_date returned None
Unresolved(due_date, parsed_due_date) ==
    due_date # <<>> /\ parsed_due_date = None

\* add_task(title, due_date): now1 is read by parse_due_date, now2 stamps
\* created_at; an exception of parse_due_date is not caught and leaves the
\* tool as a raised exception
add_task(title, due_date) ==
    /\ program = "mongo"
    /\ \E now1 \in Readings(clock) : \E now2 \in Readings(now1) :
        LET parsed_due_date ==
                IF due_date # <<>> THEN parse_due_date(due_date, now1) ELSE None
            task == [id |-> get_next_task_id(tasks_collection),
                     title |-> title,
                     due_date |-> parsed_due_date,
                     done |-> FALSE,
                     created_at |-> isoformat(now2)]
        IN
        /\ call' = [op |-> "add_task", title |-> title, due_date |-> due_date]
        /\ IF parsed_due_date = OverflowError
           THEN /\ result' = [exception |-> OverflowError]
                /\ clock' = now1
                /\ UNCHANGED tasks_collection
           ELSE IF Unresolved(due_date, parsed_due_date)
           THEN /\ result' = [error |-> <<"Could not understand the due date", due_date>>,
                              received_date |-> due_date]
                /\ clock' = now1
                /\ UNCHANGED tasks_collection
           ELSE /\ tasks_collection' = Append(tasks_collection, task)
                /\ result' = [message |-> <<"Task added", title>>,
                              task |-> task,
                              parsed_date |-> IF parsed_due_date # None
                                              THEN parsed_due_date
                                              ELSE <<"No due date">>]
                /\ clock' = now2
    /\ UNCHANGED <<program, tasks_json>>

\* delete_task(task_id)
delete_task(task_id) ==
    /\ program = "mongo"
    /\ call' = [op |-> "delete_task", task_id |-> task_id]
    /\ UNCHANGED clock
    /\ IF int(task_id) = <<>>
       THEN /\ result' = [error |-> <<"Task ID must be an integer.">>]
            /\ UNCHANGED tasks_collection
       ELSE LET id == int(task_id)[1]
                k == FirstWithId(tasks_collection, id)
                task == tasks_collection[k]
                deleted_task == [id |-> task.id,
                                 title |-> task.title,
                                 due_date |-> task.due_date,
                                 done |-> task.done,
                                 created_at |-> task.created_at]
            IN  IF k # 0
                THEN /\ tasks_collection' = RemoveAt(tasks_collection, k)
                     /\ result' = [message |-> <<"Task has been deleted", deleted_task.title, id>>,
                                   deleted_task |-> deleted_task]
                ELSE /\ result' = NotFound(id)
                     /\ UNCHANGED tasks_collection
    /\ UNCHANGED <<program, tasks_json>>

\* list_tasks(): find({}).sort("id", 1)
list_tasks ==
    /\ program = "mongo"
    /\ call' = [op |-> "list_tasks"]
    /\ UNCHANGED clock
    /\ LET tasks == sort(tasks_collection, 1)
       IN  result' = [tasks |-> tasks, total_count |-> Len(tasks)]
    /\ UNCHANGED <<program, tasks_collection, tasks_json>>

\* mutant of complete_task: update_one(..., upsert = True)
complete_task_upsert(task_id) ==
    /\ program = "mongo"
    /\ call' = [op |-> "complete_task", task_id |-> task_id]
    /\ \E now \in Readings(clock) :
        LET k == FirstWithId(tasks_collection, task_id)
            inserted == [id |-> task_id, done |-> TRUE,
                         completed_at |-> isoformat(now)]
            updated == IF k # 0
                       THEN [tasks_collection EXCEPT
                                ![k] = SetDone(tasks_collection[k], isoformat(now))]
                       ELSE Append(tasks_collection, inserted)
        IN
        /\ clock' = now
        /\ tasks_collection' = updated
        /\ result' = IF k # 0
                     THEN [message |-> <<"Task marked as done", updated[k].title, task_id>>,
                           task |-> updated[k]]
                     ELSE NotFound(task_id)
    /\ UNCHANGED <<program, tasks_json>>

\* complete_task(task_id): update_one on the first matching document, then
\* find_one to return it
complete_task(task_id) ==
    /\ program = "mongo"
    /\ call' = [op |-> "complete_task", task_id |-> task_id]
    /\ \E now \in Readings(clock) :
        LET k == FirstWithId(tasks_collection, task_id)
            updated == [tasks_collection EXCEPT
                            ![k] = SetDone(tasks_collection[k], isoformat(now))]
        IN
        /\ clock' = now
        /\ IF k # 0
           THEN /\ tasks_collection' = updated
                /\ result' = [message |-> <<"Task marked as done",
                                            updated[FirstWithId(updated, task_id)].title,
                                            task_id>>,
                              task |-> updated[FirstWithId(updated, task_id)]]
           ELSE /\ result' = NotFound(task_id)
                /\ UNCHANGED tasks_collection
    /\ UNCHANGED <<program, tasks_json>>

(* ----------------------- src/server.py: the tools ----------------------- *)
\* add_task(title, due_date): load_tasks, append, save_tasks
add_task_json(title, due_date) ==
    /\ program = "json"
    /\ \E now1 \in Readings(clock) : \E now2 \in Readings(now1) :
        LET tasks == tasks_json
            parsed_due_date ==
                IF due_date # <<>> THEN parse_due_date_json(due_date, now1) ELSE None
            task == [id |-> Len(tasks) + 1,
                     title |-> title,
                     due_date |-> parsed_due_date,
                     done |-> FALSE,
                     created_at |-> isoformat(now2)]
        IN
        /\ call' = [op |-> "add_task", title |-> title, due_date |-> due_date]
        /\ IF Unresolved(due_date, parsed_due_date)
           THEN /\ result' = [error |-> <<"Could not understand the due date", due_date>>,
                              received_date |-> due_date]
                /\ clock' = now1
                /\ UNCHANGED tasks_json
           ELSE /\ tasks_json' = Append(tasks, task)
                /\ result' = [message |-> <<"Task added", title>>,
                              task |-> task,
                              parsed_date |-> IF parsed_due_date # None
                                              THEN parsed_due_date
                                              ELSE <<"No due date">>]
                /\ clock' = now2
    /\ UNCHANGED <<program, tasks_collection>>

\* delete_task(task_id): the first task with the id is copied, then
\* tasks.remove(t) drops the first element equal to it
delete_task_json(task_id) ==
    /\ program = "json"
    /\ call' = [op |-> "delete_task", task_id |-> task_id]
    /\ UNCHANGED clock
    /\ IF int(task_id) = <<>>
       THEN /\ result' = [error |-> <<"Task ID must be an integer.">>]
            /\ UNCHANGED tasks_json
       ELSE LET id == int(task_id)[1]
                tasks == tasks_json
                k == FirstWithId(tasks, id)
                deleted_task == tasks[k]
                r == CHOOSE i \in DOMAIN tasks :
                        /\ tasks[i] = tasks[k]
                        /\ \A j \in DOMAIN tasks : tasks[j] = tasks[k] => i <= j
            IN  IF k # 0
                THEN /\ tasks_json' = RemoveAt(tasks, r)
                     /\ result' = [message |-> <<"Task has been deleted", deleted_task.title, id>>,
                                   deleted_task |-> deleted_task]
                ELSE /\ result' = NotFound(id)
                     /\ UNCHANGED tasks_json
    /\ UNCHANGED <<program, tasks_collection>>

\* list_tasks(): the array as load_tasks returns it
list_tasks_json ==
    /\ program = "json"
    /\ call' = [op |-> "list_tasks"]
    /\ UNCHANGED clock
    /\ LET tasks == tasks_json
       IN  result' = [tasks |-> tasks, total_count |-> Len(tasks)]
    /\ UNCHANGED <<program, tasks_collection, tasks_json>>

\* complete_task(task_id): the first task with the id is updated in place
complete_task_json(task_id) ==
    /\ program = "json"
    /\ call' = [op |-> "complete_task", task_id |-> task_id]
    /\ LET tasks == tasks_json
           k == FirstWithId(tasks, task_id)
       IN  IF k # 0
           THEN \E now \in Readings(clock) :
                    LET t == SetDone(tasks[k], isoformat(now)) IN
                    /\ clock' = now
                    /\ tasks_json' = [tasks EXCEPT ![k] = t]
                    /\ result' = [message |-> <<"Task marked as done", t.title, task_id>>,
                                  task |-> t]
           ELSE /\ result' = NotFound(task_id)
                /\ UNCHANGED <<tasks_json, clock>>
    /\ UNCHANGED <<program, tasks_collection>>

(* ------------------------------ the queries ----------------------------- *)
\* [t for t in tasks if not t["done"]]
pending_of(tasks) ==
    LET not_done(t) == ~t.done IN SelectSeq(tasks, not_done)

\* [t for t in tasks if t["done"]]
done_of(tasks) ==
    LET is_done(t) == t.done IN SelectSeq(tasks, is_done)

\* mutant of overdue_of: a task due today is overdue
overdue_of_today_too(pending, today) ==
    LET late(t) == t.due_date # None /\ ~LexLess(today, t.due_date)
    IN  SelectSeq(pending, late)

\* [t for t in pending if t["due_date"] and t["due_date"] < today]
overdue_of(pending, today) ==
    LET late(t) == t.due_date # None /\ LexLess(t.due_date, today)
    IN  SelectSeq(pending, late)

\* mutant of summary_of: the completed tasks are the tasks with a due date
summary_of_dated(tasks, now) ==
    LET pending == pending_of(tasks)
        dated(t) == t.due_date # None
        done == SelectSeq(tasks, dated)
        overdue == overdue_of(pending, strftime(now))
    IN  [summary |-> <<Len(pending), Len(done)>>
                        \o (IF overdue # <<>> THEN <<Len(overdue)>> ELSE <<>>),
         pending |-> pending,
         completed |-> done,
         overdue |-> overdue,
         stats |-> [total |-> Len(tasks), pending |-> Len(pending),
                    completed |-> Len(done), overdue |-> Len(overdue)]]

\* what summarize_tasks returns on the tasks, now = datetime.now(); the
\* summary sentence is kept as the numbers it spells
summary_of(tasks, now) ==
    LET pending == pending_of(tasks)
        done == done_of(tasks)
        overdue == overdue_of(pending, strftime(now))
    IN  [summary |-> <<Len(pending), Len(done)>>
                        \o (IF overdue # <<>> THEN <<Len(overdue)>> ELSE <<>>),
         pending |-> pending,
         completed |-> done,
         overdue |-> overdue,
         stats |-> [total |-> Len(tasks), pending |-> Len(pending),
                    completed |-> Len(done), overdue |-> Len(overdue)]]

\* mutant of due_on: the tasks due on the date or before it
due_on_or_before(tasks, date) ==
    LET hit(t) == t.due_date # None /\ ~LexLess(date, t.due_date)
    IN  SelectSeq(tasks, hit)

\* find({"due_date": date}) (src/server.py: t["due_date"] == date)
due_on(tasks, date) ==
    LET hit(t) == t.due_date = date IN SelectSeq(tasks, hit)

\* find({"due_date": {"$gte": start, "$lte": end}}): the comparison holds
\* for strings only, a null due_date never matches (src/server.py:
\* t.get("due_date") and start <= t["due_date"] <= end)
due_within(tasks, start_date_str, end_date_str) ==
    LET hit(t) == /\ t.due_date # None
                  /\ ~LexLess(t.due_date, start_date_str)
                  /\ ~LexLess(end_date_str, t.due_date)
    IN  SelectSeq(tasks, hit)

\* (parsed_end - parsed_start).days + 1
date_range_days(parsed_start, parsed_end) ==
    ((parsed_end - parsed_start) \div TicksPerDay) + 1

\* what tasks_by_date of either server returns for the resolved date
date_result(date, parsed_due_date, tasks) ==
    IF parsed_due_date = OverflowError THEN [exception |-> OverflowError]
    ELSE IF parsed_due_date = None
    THEN [error |-> <<"Could not understand the date", date>>,
          received_date |-> date]
    ELSE [date |-> parsed_due_date,
          date_input |-> date,
          tasks |-> due_on(tasks, parsed_due_date),
          count |-> Len(due_on(tasks, parsed_due_date))]

\* the result of tasks_by_range once both ends are resolved and ordered
range_found(start, end, parsed_start, parsed_end, tasks) ==
    [start_date |-> strftime(parsed_start),
     end_date |-> strftime(parsed_end),
     start_input |-> start,
     end_input |-> IF end # <<>> THEN end ELSE <<"same as start">>,
     tasks |-> due_within(tasks, strftime(parsed_start), strftime(parsed_end)),
     count |-> Len(due_within(tasks, strftime(parsed_start), strftime(parsed_end))),
     date_range_days |-> date_range_days(parsed_start, parsed_end)]

\* what tasks_by_range of src/backend/server.py returns: both ends go
\* through parse_due_date and strptime, which gives midnight
range_result(start, end, tasks, now1, now2) ==
    LET start_date_str == parse_due_date(start, now1)
        end_date_str == IF end # <<>> THEN parse_due_date(end, now2)
                        ELSE start_date_str
    IN
    IF start_date_str = OverflowError THEN [exception |-> OverflowError]
    ELSE IF start_date_str = None
    THEN [error |-> <<"Could not understand start date", start>>,
          received_start |-> start]
    ELSE IF end_date_str = OverflowError THEN [exception |-> OverflowError]
    ELSE IF end_date_str = None
    THEN [error |-> <<"Could not understand end date", end>>,
          received_end |-> end]
    ELSE LET parsed_start == strptime(start_date_str)
             parsed_end == strptime(end_date_str)
         IN  IF parsed_start > parsed_end
             THEN range_found(start, end, parsed_end, parsed_start, tasks)
             ELSE range_found(start, end, parsed_start, parsed_end, tasks)

\* what tasks_by_range of src/server.py returns: the start is parsed by
\* dateparser relative to now, the end relative to the parsed start, and both
\* keep their time of day
range_result_json(start, end, tasks, now) ==
    LET parsed_start == date_parse(start, now)
        parsed_end == IF end # <<>> THEN date_parse(end, parsed_start[1])
                      ELSE parsed_start
    IN
    IF parsed_start = None
    THEN [error |-> <<"Could not understand start date", start>>,
          received_start |-> start]
    ELSE IF parsed_end = None
    THEN [error |-> <<"Could not understand end date", end>>,
          received_end |-> end]
    ELSE IF parsed_start[1] > parsed_end[1]
         THEN range_found(start, end, parsed_end[1], parsed_start[1], tasks)
         ELSE range_found(start, end, parsed_start[1], parsed_end[1], tasks)

\* summarize_tasks() of src/backend/server.py
summarize_tasks ==
    /\ program = "mongo"
    /\ call' = [op |-> "summarize_tasks"]
    /\ \E now \in Readings(clock) :
        /\ clock' = now
        /\ result' = summary_of(tasks_collection, now)
    /\ UNCHANGED <<program, tasks_collection, tasks_json>>

\* tasks_by_date(date) of src/backend/server.py
tasks_by_date(date) ==
    /\ program = "mongo"
    /\ call' = [op |-> "tasks_by_date", date |-> date]
    /\ \E now \in Readings(clock) :
        /\ clock' = now
        /\ result' = date_result(date, parse_due_date(date, now), tasks_collection)
    /\ UNCHANGED <<program, tasks_collection, tasks_json>>

\* tasks_by_range(start, end) of src/backend/server.py; each parse_due_date
\* reads the clock
tasks_by_range(start, end) ==
    /\ program = "mongo"
    /\ call' = [op |-> "tasks_by_range", start |-> start, end |-> end]
    /\ \E now1 \in Readings(clock) : \E now2 \in Readings(now1) :
        /\ clock' = now2
        /\ result' = range_result(start, end, tasks_collection, now1, now2)
    /\ UNCHANGED <<program, tasks_collection, tasks_json>>

\* summarize_tasks() of src/server.py
summarize_tasks_json ==
    /\ program = "json"
    /\ call' = [op |-> "summarize_tasks"]
    /\ \E now \in Readings(clock) :
        /\ clock' = now
        /\ result' = summary_of(tasks_json, now)
    /\ UNCHANGED <<program, tasks_collection, tasks_json>>

\* tasks_by_date(date) of src/server.py
tasks_by_date_json(date) ==
    /\ program = "json"
    /\ call' = [op |-> "tasks_by_date", date |-> date]
    /\ \E now \in Readings(clock) :
        /\ clock' = now
        /\ result' = date_result(date, parse_due_date_json(date, now), tasks_json)
    /\ UNCHANGED <<program, tasks_collection, tasks_json>>

\* tasks_by_range(start, end) of src/server.py
tasks_by_range_json(start, end) ==
    /\ program = "json"
    /\ call' = [op |-> "tasks_by_range", start |-> start, end |-> end]
    /\ \E now \in Readings(clock) :
        /\ clock' = now
        /\ result' = range_result_json(start, end, tasks_json, now)
    /\ UNCHANGED <<program, tasks_collection, tasks_json>>

(* --------------------------- specification ------------------------------ *)
\* the stored tasks of the running server
Stored == IF program = "mongo" THEN tasks_collection ELSE tasks_json

\* a store within the bounds: at most max tasks, no id above MaxId
Bounded(tasks, max) ==
    /\ Len(tasks) <= max
    /\ \A i \in DOMAIN tasks : tasks[i].id <= MaxId

\* the calls a client makes; it stops adding when the store would leave the
\* bounds
AddTask(max) ==
    \E title \in Titles, due_date \in DueTexts :
        add_task(title, due_date) /\ Bounded(tasks_collection', max)

DeleteTask == \E task_id \in TaskIdInputs : delete_task(task_id)

CompleteTask == \E task_id \in 1..MaxId : complete_task(task_id)

AddTaskJson(max) ==
    \E title \in Titles, due_date \in DueTexts :
        add_task_json(title, due_date) /\ Bounded(tasks_json', max)

DeleteTaskJson == \E task_id \in TaskIdInputs : delete_task_json(task_id)

CompleteTaskJson == \E task_id \in 1..MaxId : complete_task_json(task_id)

Init ==
    /\ program \in {"mongo", "json"}
    /\ tasks_collection = <<>>
    /\ tasks_json = <<>>
    /\ clock = StartClock
    /\ call = [op |-> "none"]
    /\ result = [none |-> TRUE]
    /\ deleted_ids = {}
    /\ procs = <<>>
    /\ begun = <<>>

\* one call at a time, and no record of the deleted ids
NoHistory == UNCHANGED <<deleted_ids, procs, begun>>

Next ==
    \/ AddTask(MaxTasks) /\ NoHistory
    \/ DeleteTask /\ NoHistory
    \/ list_tasks /\ NoHistory
    \/ CompleteTask /\ NoHistory
    \/ AddTaskJson(MaxTasks) /\ NoHistory
    \/ DeleteTaskJson /\ NoHistory
    \/ list_tasks_json /\ NoHistory
    \/ CompleteTaskJson /\ NoHistory

Spec == Init /\ [][Next]_vars

\* History: deleted_ids records the id of every task a delete_task removed
History ==
    /\ deleted_ids' =
          IF call'.op = "delete_task" /\ "deleted_task" \in DOMAIN result'
          THEN deleted_ids \cup {result'.deleted_task.id}
          ELSE deleted_ids
    /\ UNCHANGED <<procs, begun>>

NextHistory ==
    \/ AddTask(MaxTasks) /\ History
    \/ DeleteTask /\ History
    \/ list_tasks /\ History
    \/ CompleteTask /\ History
    \/ AddTaskJson(MaxTasks) /\ History
    \/ DeleteTaskJson /\ History
    \/ list_tasks_json /\ History
    \/ CompleteTaskJson /\ History

SpecHistory == Init /\ [][NextHistory]_vars

\* Before: begun records the store as the call found it
Before ==
    /\ begun' = Stored
    /\ UNCHANGED <<deleted_ids, procs>>

NextBefore ==
    \/ AddTask(MaxTasks) /\ Before
    \/ DeleteTask /\ Before
    \/ list_tasks /\ Before
    \/ CompleteTask /\ Before
    \/ AddTaskJson(MaxTasks) /\ Before
    \/ DeleteTaskJson /\ Before
    \/ list_tasks_json /\ Before
    \/ CompleteTaskJson /\ Before

\* a server started at the last instant of the window: every datetime.now()
\* gives the same reading
InitBefore ==
    /\ program \in {"mongo", "json"}
    /\ tasks_collection = <<>>
    /\ tasks_json = <<>>
    /\ clock = StartClock + MaxTicks
    /\ call = [op |-> "none"]
    /\ result = [none |-> TRUE]
    /\ deleted_ids = {}
    /\ procs = <<>>
    /\ begun = <<>>

SpecBefore == InitBefore /\ [][NextBefore]_vars

\* add_task and complete_task alone, while the clock runs
NextRestamp ==
    \/ AddTask(MaxTasks) /\ Before
    \/ CompleteTask /\ Before
    \/ AddTaskJson(MaxTasks) /\ Before
    \/ CompleteTaskJson /\ Before

SpecRestamp == Init /\ [][NextRestamp]_vars

\* the queries, on the stores that add_task and complete_task build
QueryDueTexts == {<<>>, <<"today">>, <<"2025-10-10">>, <<"2025-10-20">>}

DateTexts == {<<"today">>, <<"2025-10-20">>, <<"next", "monday">>, <<"xyzzy">>}

RangeTexts == {<<"today">>, <<"2025-10-10">>, <<"2025-10-20">>, <<"xyzzy">>}

AddDated(max) ==
    \E title \in Titles, due_date \in QueryDueTexts :
        add_task(title, due_date) /\ Bounded(tasks_collection', max)

AddDatedJson(max) ==
    \E title \in Titles, due_date \in QueryDueTexts :
        add_task_json(title, due_date) /\ Bounded(tasks_json', max)

TasksByDate == \E date \in DateTexts : tasks_by_date(date)

TasksByRange ==
    \E start \in RangeTexts, end \in RangeTexts \cup {<<>>} :
        tasks_by_range(start, end)

TasksByDateJson == \E date \in DateTexts : tasks_by_date_json(date)

TasksByRangeJson ==
    \E start \in RangeTexts, end \in RangeTexts \cup {<<>>} :
        tasks_by_range_json(start, end)

NextQuery ==
    \/ AddDated(MaxTasks) /\ NoHistory
    \/ CompleteTask /\ NoHistory
    \/ summarize_tasks /\ NoHistory
    \/ TasksByDate /\ NoHistory
    \/ TasksByRange /\ NoHistory
    \/ AddDatedJson(MaxTasks) /\ NoHistory
    \/ CompleteTaskJson /\ NoHistory
    \/ summarize_tasks_json /\ NoHistory
    \/ TasksByDateJson /\ NoHistory
    \/ TasksByRangeJson /\ NoHistory

SpecQuery == InitBefore /\ [][NextQuery]_vars

\* the tasks.json server alone, with room for one more task
InitJson == Init /\ program = "json"

NextJson ==
    \/ AddTaskJson(MaxTasks + 1) /\ NoHistory
    \/ DeleteTaskJson /\ NoHistory
    \/ list_tasks_json /\ NoHistory
    \/ CompleteTaskJson /\ NoHistory

SpecJson == InitJson /\ [][NextJson]_vars

\* get_next_task_id on any collection: documents with any id, or with none
Documents == {[id |-> k, title |-> "a"] : k \in 1..MaxId} \cup {[title |-> "a"]}

RECURSIVE SeqsUpTo(_, _)
SeqsUpTo(S, n) ==
    IF n = 0 THEN {<<>>}
    ELSE LET shorter == SeqsUpTo(S, n - 1)
         IN  shorter \cup {Append(s, x) : s \in shorter, x \in S}

InitNextId ==
    /\ program = "mongo"
    /\ tasks_collection \in SeqsUpTo(Documents, MaxTasks + 1)
    /\ tasks_json = <<>>
    /\ clock = StartClock
    /\ call = [op |-> "none"]
    /\ result = [none |-> TRUE]
    /\ deleted_ids = {}
    /\ procs = <<>>
    /\ begun = <<>>

call_get_next_task_id ==
    /\ call' = [op |-> "get_next_task_id"]
    /\ result' = [id |-> get_next_task_id(tasks_collection)]
    /\ UNCHANGED <<program, tasks_collection, tasks_json, clock, deleted_ids,
                   procs, begun>>

NextNextId == call_get_next_task_id

SpecNextId == InitNextId /\ [][NextNextId]_vars

(* parse_due_date of src/backend/server.py as a function of the text and of
   the datetime.now() it reads: the reference instant is drawn at Init from
   the ticks of nine consecutive days (every weekday, 2025-10-15 among them),
   the text by the call. *)
ResolveClocks ==
    {d * TicksPerDay + t : d \in (StartDay - 2)..(StartDay + 6),
                           t \in 0..(TicksPerDay - 1)}

WeekTexts ==
    {<<"next", "week">>, <<"beginning", "of", "next", "week">>,
     <<"start", "of", "next", "week">>, <<"end", "of", "next", "week">>,
     <<"this", "week">>, <<"beginning", "of", "this", "week">>,
     <<"start", "of", "this", "week">>,
     <<"end", "of", "week">>, <<"end", "of", "this", "week">>,
     <<"Next", "Week">>, <<"THIS", "Week">>, <<"End", "of", "Week">>,
     <<"report", "by", "end", "of", "week">>}

InWeeksTexts ==
    {<<"in", n, "weeks">> : n \in NumberTokens}
        \cup {<<"in", "1", "week">>, <<"IN", "2", "Weeks">>,
              <<"in", "2", "weeks", "next", "week">>}

WeekdayTexts ==
    {<<p, weekday_map[k][1]>> : p \in {"next", "this"}, k \in DOMAIN weekday_map}
        \cup {<<"Next", "Friday">>, <<"THIS", "Monday">>,
              <<"call", "next", "friday">>}

\* texts in which more than one rule finds its phrase
MixedTexts ==
    {<<"next", "week", "this", "friday">>, <<"this", "friday", "next", "week">>,
     <<"this", "week", "next", "monday">>,
     <<"end", "of", "week", "next", "friday">>,
     <<"next", "friday", "tomorrow">>, <<"tomorrow", "next", "week">>,
     <<"this", "week", "2025-10-10">>}

ResolveTexts ==
    WeekTexts \cup InWeeksTexts \cup WeekdayTexts \cup MixedTexts
        \cup {<<"tomorrow">>, <<"xyzzy">>}

InitResolve ==
    /\ program = "mongo"
    /\ tasks_collection = <<>>
    /\ tasks_json = <<>>
    /\ clock \in ResolveClocks
    /\ call = [op |-> "none"]
    /\ result = [none |-> TRUE]
    /\ deleted_ids = {}
    /\ procs = <<>>
    /\ begun = <<>>

call_parse_due_date ==
    \E date_string \in ResolveTexts :
        LET date == parse_due_date(date_string, clock) IN
        /\ call' = [op |-> "parse_due_date", date_string |-> date_string]
        /\ result' = IF date = OverflowError THEN [exception |-> OverflowError]
                     ELSE [date |-> date]
        /\ UNCHANGED <<program, tasks_collection, tasks_json, clock,
                       deleted_ids, procs, begun>>

NextResolve == call_parse_due_date

SpecResolve == InitResolve /\ [][NextResolve]_vars

(* Two server processes on one store.  A tool call is not one step any more:
   it runs from its first access to the store (Start) to its last access and
   its return (Finish), and the other process may run in between.  Nothing in
   either server serializes the calls.  datetime.now() stays at one reading
   while the two calls run. *)

\* the task dict add_task builds when no due date is given
new_task(id, title, now) ==
    [id |-> id, title |-> title, due_date |-> None, done |-> FALSE,
     created_at |-> isoformat(now)]

\* tasks_collection.find_one({"id": id}): <<document>>, or None
find_one(collection, id) ==
    IF FirstWithId(collection, id) = 0 THEN None
    ELSE <<collection[FirstWithId(collection, id)]>>

\* mutant of insert_one: the id is allocated by the store when it inserts
insert_one_next_id(collection, task) ==
    Append(collection, [task EXCEPT !.id = get_next_task_id(collection)])

\* tasks_collection.insert_one(task)
insert_one(collection, task) == Append(collection, task)

\* tasks_collection.delete_one({"id": id}): the first match goes, if any
delete_one(collection, id) ==
    IF FirstWithId(collection, id) = 0 THEN collection
    ELSE RemoveAt(collection, FirstWithId(collection, id))

\* tasks_collection.update_one({"id": id}, {"$set": ...}): the first match is
\* updated, if any
update_one(collection, id, stamp) ==
    IF FirstWithId(collection, id) = 0 THEN collection
    ELSE [collection EXCEPT
            ![FirstWithId(collection, id)] =
                SetDone(collection[FirstWithId(collection, id)], stamp)]

\* a tool of src/backend/server.py up to and including its first access to
\* the collection: <<collection afterwards, what the call holds>>
FirstStepMongo(c, collection, now) ==
    IF c.op = "add_task"
    THEN <<collection, <<get_next_task_id(collection)>> >>
    ELSE IF c.op = "delete_task"
    THEN <<collection, find_one(collection, c.task_id)>>
    ELSE <<update_one(collection, c.task_id, isoformat(now)),
           IF FirstWithId(collection, c.task_id) # 0 THEN <<TRUE>> ELSE <<>> >>

\* the rest of the tool: <<collection afterwards, returned result>>
SecondStepMongo(c, local, collection, now) ==
    IF c.op = "add_task"
    THEN LET task == new_task(local[1], c.title, now)
         IN  <<insert_one(collection, task),
               [message |-> <<"Task added", c.title>>,
                task |-> task,
                parsed_date |-> <<"No due date">>]>>
    ELSE IF c.op = "delete_task"
    THEN IF local = None THEN <<collection, NotFound(c.task_id)>>
         ELSE LET task == local[1]
                  deleted_task == [id |-> task.id,
                                   title |-> task.title,
                                   due_date |-> task.due_date,
                                   done |-> task.done,
                                   created_at |-> task.created_at]
              IN  <<delete_one(collection, c.task_id),
                    [message |-> <<"Task has been deleted", deleted_task.title,
                                   c.task_id>>,
                     deleted_task |-> deleted_task]>>
    ELSE IF local = <<>> THEN <<collection, NotFound(c.task_id)>>
         ELSE LET task == find_one(collection, c.task_id)
              IN  IF task = None
                  THEN <<collection, [exception |-> <<"TypeError">>]>>
                  ELSE <<collection,
                         [message |-> <<"Task marked as done", task[1].title,
                                        c.task_id>>,
                          task |-> task[1]]>>

\* a tool of src/server.py up to load_tasks(): the file is left as it is and
\* the call holds the list it read
FirstStepJson(c, file, now) == <<file, file>>

\* the rest of the tool, on the list it read; save_tasks replaces the file
SecondStepJson(c, tasks, file, now) ==
    IF c.op = "add_task"
    THEN LET task == new_task(Len(tasks) + 1, c.title, now)
         IN  <<Append(tasks, task),
               [message |-> <<"Task added", c.title>>,
                task |-> task,
                parsed_date |-> <<"No due date">>]>>
    ELSE IF c.op = "delete_task"
    THEN LET id == c.task_id
             k == FirstWithId(tasks, id)
             r == CHOOSE i \in DOMAIN tasks :
                     /\ tasks[i] = tasks[k]
                     /\ \A j \in DOMAIN tasks : tasks[j] = tasks[k] => i <= j
         IN  IF k = 0 THEN <<file, NotFound(id)>>
             ELSE <<RemoveAt(tasks, r),
                    [message |-> <<"Task has been deleted", tasks[k].title, id>>,
                     deleted_task |-> tasks[k]]>>
    ELSE LET k == FirstWithId(tasks, c.task_id)
             t == SetDone(tasks[k], isoformat(now))
         IN  IF k = 0 THEN <<file, NotFound(c.task_id)>>
             ELSE <<[tasks EXCEPT ![k] = t],
                    [message |-> <<"Task marked as done", t.title, c.task_id>>,
                     task |-> t]>>

FirstStep(c, tasks, now) ==
    IF program = "mongo" THEN FirstStepMongo(c, tasks, now)
    ELSE FirstStepJson(c, tasks, now)

SecondStep(c, local, tasks, now) ==
    IF program = "mongo" THEN SecondStepMongo(c, local, tasks, now)
    ELSE SecondStepJson(c, local, tasks, now)

\* the store of the running server becomes tasks
Store(tasks) ==
    IF program = "mongo"
    THEN tasks_collection' = tasks /\ UNCHANGED tasks_json
    ELSE tasks_json' = tasks /\ UNCHANGED tasks_collection

\* the calls the two clients make; every task_id is an int, which
\* int(task_id) leaves as it is
ConcCalls ==
    {[op |-> "add_task", title |-> t, due_date |-> <<>>] : t \in Titles}
        \cup {[op |-> "delete_task", task_id |-> k] : k \in 1..MaxId}
        \cup {[op |-> "complete_task", task_id |-> k] : k \in 1..MaxId}

\* the stores the calls find: what 0 .. MaxTasks add_task calls have left
ConcStores ==
    {[i \in 1..n |-> new_task(i, "a", StartClock)] : n \in 0..MaxTasks}

InitConc ==
    /\ program \in {"mongo", "json"}
    /\ begun \in ConcStores
    /\ tasks_collection = IF program = "mongo" THEN begun ELSE <<>>
    /\ tasks_json = IF program = "json" THEN begun ELSE <<>>
    /\ clock = StartClock
    /\ call = [op |-> "none"]
    /\ result = [none |-> TRUE]
    /\ deleted_ids = {}
    /\ procs = Idle

\* process p takes a call and runs it up to its first access to the store;
\* after records which calls had returned by then
Start(p) ==
    /\ procs[p].pc = "idle"
    /\ \E c \in ConcCalls :
        LET s == FirstStep(c, Stored, clock) IN
        /\ Store(s[1])
        /\ procs' = [procs EXCEPT ![p] =
                        [pc |-> "called", call |-> c, local |-> s[2],
                         after |-> {q \in Procs : procs[q].pc = "returned"}]]
    /\ UNCHANGED <<program, clock, call, result, deleted_ids, begun>>

\* process p runs the rest of its call and returns
Finish(p) ==
    /\ procs[p].pc = "called"
    /\ LET s == SecondStep(procs[p].call, procs[p].local, Stored, clock) IN
        /\ Store(s[1])
        /\ procs' = [procs EXCEPT ![p] =
                        [pc |-> "returned", call |-> procs[p].call,
                         after |-> procs[p].after, result |-> s[2]]]
        /\ call' = procs[p].call
        /\ result' = s[2]
    /\ UNCHANGED <<program, clock, deleted_ids, begun>>

NextConc ==
    \/ \E p \in Procs : Start(p)
    \/ \E p \in Procs : Finish(p)

SpecConc == InitConc /\ [][NextConc]_vars

TypeOK ==
    /\ program \in {"mongo", "json"}
    /\ Len(Stored) <= MaxTasks + 1
    /\ \A i \in DOMAIN Stored : Stored[i].id \in 1..MaxId
    /\ clock \in StartClock..(StartClock + MaxTicks)

(* ------------------------------- claims --------------------------------- *)
\* no two tasks of the sequence have the same id
UniqueIds(tasks) ==
    \A i, j \in DOMAIN tasks : i # j => tasks[i].id # tasks[j].id

\* parse_due_date of the running server
Resolve(text, now) ==
    IF program = "mongo" THEN parse_due_date(text, now)
    ELSE parse_due_date_json(text, now)

C2_JsonIdsUnique == program = "json" => UniqueIds(tasks_json)

\* C3: once a task with id k has been deleted, no later add_task returns a
\* task whose id is k.  (Fails: both stores hand a deleted id out again.)
C3_IdNeverReused ==
    (call.op = "add_task" /\ "task" \in DOMAIN result)
        => result.task.id \notin deleted_ids

C5_UnresolvedAddsNothing ==
    [][ ( /\ call'.op = "add_task"
          /\ call'.due_date # <<>>
          /\ \A now \in clock..clock' : Resolve(call'.due_date, now) = None )
        => ( /\ "error" \in DOMAIN result'
             /\ result'.received_date = call'.due_date
             /\ Stored' = Stored
             /\ Len(Stored') = Len(Stored) ) ]_vars

\* C5 witness: the error result of add_task("a", "xyzzy") on a store of one
\* task
C5_Witness ==
    /\ call.op = "add_task"
    /\ call.due_date = <<"xyzzy">>
    /\ "error" \in DOMAIN result
    /\ result.received_date = <<"xyzzy">>
    /\ Len(Stored) = 1

\* C6: in every reachable state each stored task has a completed_at field
\* if and only if its done flag is true.
C6_CompletedAtIffDone ==
    \A i \in DOMAIN Stored :
        ("completed_at" \in DOMAIN Stored[i]) <=> Stored[i].done

\* C6 witness: a completed task next to a pending one
C6_Witness ==
    /\ Len(Stored) = 2
    /\ Stored[1].done /\ "completed_at" \in DOMAIN Stored[1]
    /\ ~Stored[2].done /\ "completed_at" \notin DOMAIN Stored[2]

\* C7: the done flag is one-way.  add_task creates the task with done =
\* false; a call other than delete_task keeps every done task in its place,
\* still done; delete_task removes at most one task and leaves the others as
\* they were.
C7_DoneIsOneWay ==
    [][ /\ (call'.op = "add_task" /\ Len(Stored') = Len(Stored) + 1)
            => ~Stored'[Len(Stored')].done
        /\ call'.op # "delete_task" =>
            \A i \in DOMAIN Stored :
                Stored[i].done =>
                    /\ i \in DOMAIN Stored'
                    /\ Stored'[i].id = Stored[i].id
                    /\ Stored'[i].done
        /\ call'.op = "delete_task" =>
            \/ Stored' = Stored
            \/ \E k \in DOMAIN Stored : Stored' = RemoveAt(Stored, k) ]_vars

\* C7 witness: add_task has run on a store whose first task was done, and
\* that task is still done next to the new, pending one
C7_Witness ==
    /\ call.op = "add_task"
    /\ "task" \in DOMAIN result
    /\ Len(Stored) = 2
    /\ Stored[1].done
    /\ ~Stored[2].done

\* C8: complete_task called with an id no stored task has returns a
\* not-found error result and leaves the store unchanged.
C8_CompleteUnknownId ==
    [][ ( /\ call'.op = "complete_task"
          /\ \A i \in DOMAIN Stored : Stored[i].id # call'.task_id )
        => ( /\ "error" \in DOMAIN result'
             /\ Stored' = Stored
             /\ Len(Stored') = Len(Stored) ) ]_vars

\* C8 witness: the not-found result of complete_task on a store of two tasks
C8_Witness ==
    /\ call.op = "complete_task"
    /\ "error" \in DOMAIN result
    /\ Len(Stored) = 2
    /\ \A i \in DOMAIN Stored : Stored[i].id # call.task_id

\* C9: delete_task called with an integer id no stored task has returns a
\* not-found error result and leaves the store unchanged; called with the id
\* of a stored task it returns that task as it was before the call.
\* (Fails: the MongoDB server's snapshot leaves out completed_at.)
C9_DeleteReturnsSnapshot ==
    [][ (call'.op = "delete_task" /\ int(call'.task_id) # <<>>) =>
            LET k == FirstWithId(Stored, int(call'.task_id)[1]) IN
            IF k = 0
            THEN "error" \in DOMAIN result' /\ Stored' = Stored
            ELSE /\ "deleted_task" \in DOMAIN result'
                 /\ result'.deleted_task = Stored[k] ]_vars

\* C10: list_tasks returns all stored tasks ordered by id ascending, and
\* total_count is the number of stored tasks.  (Fails on tasks.json: the
\* array is returned in file order and add_task can append a smaller id.)
C10_ListSortedById ==
    call.op = "list_tasks" =>
        /\ result.total_count = Len(Stored)
        /\ Len(result.tasks) = Len(Stored)
        /\ \A i \in DOMAIN Stored :
                Cardinality({j \in DOMAIN Stored : Stored[j] = Stored[i]})
                    = Cardinality({j \in DOMAIN result.tasks :
                                      result.tasks[j] = Stored[i]})
        /\ \A i, j \in DOMAIN result.tasks :
                i < j => result.tasks[i].id <= result.tasks[j].id


(* ---------------------- claims about the resolver ----------------------- *)
\* the last call was parse_due_date on one of the texts
Called(texts) == call.op = "parse_due_date" /\ call.date_string \in texts

\* the call returned a "%Y-%m-%d" date
ResolvedDate == "date" \in DOMAIN result /\ result.date # None

\* whole days from the reference date to the returned date
DaysAhead == (strptime(result.date) \div TicksPerDay) - (clock \div TicksPerDay)

\* the reference instant falls on Wednesday 2025-10-15
OnOct15 == strftime(clock) = <<2025, 10, 15>>

\* C13: "end of next week" resolves to the Friday of the following week, four
\* days after the Monday that "next week" resolves to, on every reference
\* weekday.  (Fails: the text contains "next week", so the first rule returns
\* that Monday.)
C13_EndOfNextWeekIsFriday ==
    Called({<<"end", "of", "next", "week">>}) =>
        /\ ResolvedDate
        /\ weekday(strptime(result.date)) = 4
        /\ result.date =
              strftime(PlusDays(strptime(parse_due_date(<<"next", "week">>, clock)), 4))

\* C14: "end of this week" resolves to the date "end of week" resolves to, on
\* every reference weekday.  (Fails: the text contains "this week", so it
\* resolves to the Monday of the current week.)
C14_EndOfThisWeekIsEndOfWeek ==
    Called({<<"end", "of", "this", "week">>}) =>
        /\ ResolvedDate
        /\ result.date = parse_due_date(<<"end", "of", "week">>, clock)

\* C15: "end of week" resolves to a Friday that is never before the reference
\* date: 4 - weekday days ahead from Monday to Friday, 6 days ahead on a
\* Saturday, 5 on a Sunday; on Wednesday 2025-10-15 it is 2025-10-17.
C15_EndOfWeekIsComingFriday ==
    Called({<<"end", "of", "week">>, <<"End", "of", "Week">>,
            <<"report", "by", "end", "of", "week">>}) =>
        /\ ResolvedDate
        /\ weekday(strptime(result.date)) = 4
        /\ DaysAhead >= 0
        /\ DaysAhead = CASE weekday(clock) <= 4 -> 4 - weekday(clock)
                         [] weekday(clock) = 5 -> 6
                         [] weekday(clock) = 6 -> 5
        /\ OnOct15 => result.date = <<2025, 10, 17>>

\* C15 witness: asked on a Saturday, the Friday six days ahead is returned
C15_Witness ==
    /\ Called({<<"end", "of", "week">>})
    /\ weekday(clock) = 5
    /\ ResolvedDate
    /\ DaysAhead = 6

\* C16: "next week", "beginning of next week" and "start of next week" resolve
\* to a Monday strictly after the reference date, 1 to 7 days ahead and
\* exactly 7 when the reference is a Monday; on 2025-10-15 it is 2025-10-20.
C16_NextWeekIsFollowingMonday ==
    Called({<<"next", "week">>, <<"beginning", "of", "next", "week">>,
            <<"start", "of", "next", "week">>, <<"Next", "Week">>}) =>
        /\ ResolvedDate
        /\ weekday(strptime(result.date)) = 0
        /\ DaysAhead \in 1..7
        /\ weekday(clock) = 0 => DaysAhead = 7
        /\ OnOct15 => result.date = <<2025, 10, 20>>

\* C16 witness: asked on a Monday, the Monday seven days ahead is returned
C16_Witness ==
    /\ Called({<<"start", "of", "next", "week">>})
    /\ weekday(clock) = 0
    /\ ResolvedDate
    /\ DaysAhead = 7

C18_NextWeekdayStrictlyAfter ==
    \A k \in DOMAIN weekday_map :
        Called({<<"next", weekday_map[k][1]>>}
                 \cup (IF weekday_map[k][1] = "friday"
                       THEN {<<"Next", "Friday">>, <<"call", "next", "friday">>}
                       ELSE {})) =>
            /\ ResolvedDate
            /\ weekday(strptime(result.date)) = weekday_map[k][2]
            /\ DaysAhead \in 1..7
            /\ weekday(clock) = weekday_map[k][2] => DaysAhead = 7

\* C18 witness: "next wed" asked on Wednesday 2025-10-15 gives 2025-10-22
C18_Witness ==
    /\ Called({<<"next", "wed">>})
    /\ OnOct15
    /\ ResolvedDate
    /\ result.date = <<2025, 10, 22>>

\* C19: "this W" resolves to the first date on or after the reference date
\* whose weekday is W, 0 to 6 days ahead; on Wednesday 2025-10-15
\* "this Monday" is 2025-10-20.
C19_ThisWeekdayOnOrAfter ==
    \A k \in DOMAIN weekday_map :
        Called({<<"this", weekday_map[k][1]>>}
                 \cup (IF weekday_map[k][1] = "monday"
                       THEN {<<"THIS", "Monday">>} ELSE {})) =>
            /\ ResolvedDate
            /\ weekday(strptime(result.date)) = weekday_map[k][2]
            /\ DaysAhead \in 0..6
            /\ (OnOct15 /\ weekday_map[k][2] = 0) => result.date = <<2025, 10, 20>>

\* C19 witness: "this Monday" asked on Wednesday 2025-10-15 gives 2025-10-20
C19_Witness ==
    /\ Called({<<"THIS", "Monday">>})
    /\ OnOct15
    /\ ResolvedDate
    /\ result.date = <<2025, 10, 20>>

\* C20: for every non-negative N, a text "in N weeks" that holds no
\* week-relative phrase resolves to the reference date plus 7 * N days; on
\* 2025-10-15 "in 2 weeks" is 2025-10-29.  (Fails: for an N that leads past
\* 9999-12-31 the datetime addition raises OverflowError.)
C20_InWeeksAddsSevenPerWeek ==
    \A n \in NumberTokens :
        Called({<<"in", n, "weeks">>}
                 \cup (IF n = "1" THEN {<<"in", "1", "week">>} ELSE {})
                 \cup (IF n = "2" THEN {<<"IN", "2", "Weeks">>} ELSE {})) =>
            /\ ResolvedDate
            /\ DaysAhead = 7 * IntOf(n)
            /\ (OnOct15 /\ n = "2") => result.date = <<2025, 10, 29>>


(* -------------------- claims about concurrent calls --------------------- *)
\* both processes have returned from their calls
BothReturned == \A p \in Procs : procs[p].pc = "returned"

\* both calls were add_task, and each made its first access to the store
\* before the other had returned: both ids were computed before either task
\* was persisted
OverlappingAdds ==
    \A p \in Procs :
        /\ procs[p].pc = "returned"
        /\ procs[p].call.op = "add_task"
        /\ procs[p].after = {}

\* the call run alone on the store: <<store afterwards, returned result>>
Serial(c, tasks) ==
    LET first == FirstStep(c, tasks, clock)
    IN  SecondStep(c, first[2], first[1], clock)

\* C11: when two add_task calls on the MongoDB store interleave so that
\* both compute the next id before either inserts its task, both tasks are
\* stored, with the same id.
C11_OverlappingAddsShareId ==
    (program = "mongo" /\ OverlappingAdds) =>
        /\ procs["p1"].result.task.id = procs["p2"].result.task.id
        /\ Len(tasks_collection) = Len(begun) + 2
        /\ \E i, j \in DOMAIN tasks_collection :
              /\ i # j
              /\ tasks_collection[i].id = procs["p1"].result.task.id
              /\ tasks_collection[j].id = procs["p2"].result.task.id

\* C11 witness: two overlapping add_task calls on the empty collection have
\* left two tasks with id 1
C11_Witness ==
    /\ program = "mongo"
    /\ OverlappingAdds
    /\ begun = <<>>
    /\ Len(tasks_collection) = 2
    /\ tasks_collection[1].id = 1
    /\ tasks_collection[2].id = 1

\* C12: whatever the interleaving of two concurrent calls (add_task,
\* delete_task, complete_task), once both have returned the store and the two
\* results are those of the two calls run one after the other, in one of the
\* two orders.  (Fails: neither server serializes its calls.)
C12_SerialOutcome ==
    BothReturned =>
        LET c1 == procs["p1"].call
            c2 == procs["p2"].call
            first1 == Serial(c1, begun)
            then2 == Serial(c2, first1[1])
            first2 == Serial(c2, begun)
            then1 == Serial(c1, first2[1])
        IN  \/ /\ Stored = then2[1]
               /\ procs["p1"].result = first1[2]
               /\ procs["p2"].result = then2[2]
            \/ /\ Stored = then1[1]
               /\ procs["p1"].result = then1[2]
               /\ procs["p2"].result = first2[2]


(* ------------- claims about one call and the store before it ------------ *)
\* the ids of the tasks, in store order
Ids(tasks) == [i \in DOMAIN tasks |-> tasks[i].id]

\* the largest id of the tasks plus one, 1 for no tasks
MaxIdPlusOne(tasks) ==
    IF tasks = <<>> THEN 1
    ELSE (CHOOSE m \in {tasks[i].id : i \in DOMAIN tasks} :
            \A i \in DOMAIN tasks : tasks[i].id <= m) + 1

\* C26: add_task without a due-date text is not an error: it stores one new
\* task with no due_date and done = false (on the MongoDB server with the
\* largest stored id plus one as its id), and list_tasks returns every stored
\* task.
C26_AddWithoutDueDate ==
    /\ (call.op = "add_task" /\ call.due_date = <<>>) =>
          /\ "task" \in DOMAIN result
          /\ "error" \notin DOMAIN result
          /\ result.task.due_date = None
          /\ result.task.done = FALSE
          /\ "completed_at" \notin DOMAIN result.task
          /\ program = "mongo" => result.task.id = MaxIdPlusOne(begun)
          /\ Stored = Append(begun, result.task)
    /\ call.op = "list_tasks" =>
          /\ result.total_count = Len(Stored)
          /\ \A i \in DOMAIN Stored :
                \E j \in DOMAIN result.tasks : result.tasks[j] = Stored[i]

\* C26 witness: a task without due date was added to a store that held one
C26_Witness ==
    /\ call.op = "add_task"
    /\ call.due_date = <<>>
    /\ Len(begun) = 1
    /\ Len(Stored) = 2
    /\ Stored[2].due_date = None

\* C27: complete_task leaves the id, title, due_date and created_at of every
\* stored task, and every field of the tasks with another id, as they were;
\* and only add_task and delete_task change the stored ids.
C27_CompleteTouchesOnlyDone ==
    /\ call.op = "complete_task" =>
          /\ Len(Stored) = Len(begun)
          /\ \A i \in DOMAIN Stored :
                /\ Stored[i].id = begun[i].id
                /\ Stored[i].title = begun[i].title
                /\ Stored[i].due_date = begun[i].due_date
                /\ Stored[i].created_at = begun[i].created_at
                /\ begun[i].id # call.task_id => Stored[i] = begun[i]
    /\ call.op \in {"complete_task", "list_tasks"} => Ids(Stored) = Ids(begun)

\* C27 witness: of two stored tasks the second was completed, the first is
\* pending as before
C27_Witness ==
    /\ call.op = "complete_task"
    /\ "task" \in DOMAIN result
    /\ Len(Stored) = 2
    /\ Stored[1].id # call.task_id
    /\ ~Stored[1].done
    /\ ~begun[2].done
    /\ Stored[2].done

\* C29: complete_task on a task that is already done succeeds again: done
\* stays true and completed_at becomes the time of this call.
C29_SecondCompleteRestamps ==
    (/\ call.op = "complete_task"
     /\ FirstWithId(begun, call.task_id) # 0
     /\ begun[FirstWithId(begun, call.task_id)].done) =>
        /\ "task" \in DOMAIN result
        /\ result.task.done
        /\ result.task.completed_at = isoformat(clock)
        /\ Stored[FirstWithId(begun, call.task_id)] = result.task

\* C29 witness: the second complete_task came at a later time, and the
\* completed_at of the first is gone
C29_Witness ==
    /\ call.op = "complete_task"
    /\ FirstWithId(begun, call.task_id) # 0
    /\ begun[FirstWithId(begun, call.task_id)].done
    /\ "task" \in DOMAIN result
    /\ result.task.completed_at # begun[FirstWithId(begun, call.task_id)].completed_at

\* C30: after a successful delete_task(id) exactly one task is gone and no
\* stored task has that id, and complete_task or delete_task on an id no
\* stored task has returns not-found.  (Fails on tasks.json, where two tasks
\* can share an id.)
C30_DeletedIdIsGone ==
    /\ (call.op = "delete_task" /\ "deleted_task" \in DOMAIN result) =>
          /\ Len(Stored) = Len(begun) - 1
          /\ \A i \in DOMAIN Stored : Stored[i].id # result.deleted_task.id
    /\ (call.op = "delete_task" /\ int(call.task_id) # <<>>
            /\ FirstWithId(begun, int(call.task_id)[1]) = 0) =>
          result = NotFound(int(call.task_id)[1])
    /\ (call.op = "complete_task" /\ FirstWithId(begun, call.task_id) = 0) =>
          result = NotFound(call.task_id)


(* --------------------- claims about the rule order ---------------------- *)
\* C28: the first matching rule decides.  A text with a week phrase and a
\* weekday phrase resolves as the week phrase does (a Monday for "next week"
\* and "this week", the coming Friday for "end of week"), wherever the
\* phrases stand; a text with a week or weekday phrase and a date for the
\* generic parser resolves as the phrase does; the generic parser gets the
\* texts without phrase.
C28_FirstMatchingRuleDecides ==
    /\ Called({<<"next", "week", "this", "friday">>,
               <<"this", "friday", "next", "week">>,
               <<"tomorrow", "next", "week">>}) =>
          /\ ResolvedDate
          /\ weekday(strptime(result.date)) = 0
          /\ DaysAhead \in 1..7
    /\ Called({<<"this", "week", "next", "monday">>,
               <<"this", "week", "2025-10-10">>}) =>
          /\ ResolvedDate
          /\ weekday(strptime(result.date)) = 0
          /\ 0 - DaysAhead \in 0..6
    /\ Called({<<"end", "of", "week", "next", "friday">>}) =>
          /\ ResolvedDate
          /\ weekday(strptime(result.date)) = 4
          /\ DaysAhead \in 0..6
          /\ weekday(clock) = 4 => DaysAhead = 0
    /\ Called({<<"next", "friday", "tomorrow">>}) =>
          /\ ResolvedDate
          /\ weekday(strptime(result.date)) = 4
          /\ DaysAhead \in 1..7
    /\ Called({<<"tomorrow">>}) => (ResolvedDate /\ DaysAhead = 1)

\* C28 witness: on Wednesday 2025-10-15 "next week this friday" is Monday
\* 2025-10-20, not Friday 2025-10-17
C28_Witness ==
    /\ Called({<<"next", "week", "this", "friday">>})
    /\ OnOct15
    /\ ResolvedDate
    /\ result.date = <<2025, 10, 20>>


(* ----------------------- claims about the queries ----------------------- *)
\* the task is an element of the sequence
Among(t, tasks) == \E j \in DOMAIN tasks : tasks[j] = t

\* the day number of a "%Y-%m-%d" date
DayOf(date) == strptime(date) \div TicksPerDay

\* the last call was tasks_by_range and returned tasks
RangeReturned == call.op = "tasks_by_range" /\ "tasks" \in DOMAIN result

\* what the last tasks_by_range call returns with its two arguments swapped,
\* on the same store at the same time
Swapped ==
    IF program = "mongo"
    THEN range_result(call.end, call.start, Stored, clock, clock)
    ELSE range_result_json(call.end, call.start, Stored, clock)

\* C21: tasks_by_range(a, b) and tasks_by_range(b, a), both resolvable,
\* return the same tasks and the same bounds, with start_date <= end_date.
\* (Fails on src/server.py, which parses the end text relative to the parsed
\* start.)
C21_RangeIsSymmetric ==
    (RangeReturned /\ call.end # <<>> /\ "tasks" \in DOMAIN Swapped) =>
        /\ result.tasks = Swapped.tasks
        /\ result.start_date = Swapped.start_date
        /\ result.end_date = Swapped.end_date
        /\ DayOf(result.start_date) <= DayOf(result.end_date)

\* C22: tasks_by_range returns exactly the stored tasks with a due_date d,
\* start_date <= d <= end_date; without end text end_date = start_date; and
\* date_range_days = (end_date - start_date) + 1 >= 1.  (Fails on
\* src/server.py, which counts the days between two instants with their
\* times of day.)
C22_RangeIsInclusive ==
    RangeReturned =>
        /\ DayOf(result.start_date) <= DayOf(result.end_date)
        /\ \A i \in DOMAIN Stored :
              Among(Stored[i], result.tasks) <=>
                  /\ Stored[i].due_date # None
                  /\ DayOf(result.start_date) <= DayOf(Stored[i].due_date)
                  /\ DayOf(Stored[i].due_date) <= DayOf(result.end_date)
        /\ \A j \in DOMAIN result.tasks : Among(result.tasks[j], Stored)
        /\ result.count = Len(result.tasks)
        /\ call.end = <<>> => result.end_date = result.start_date
        /\ result.date_range_days =
              (DayOf(result.end_date) - DayOf(result.start_date)) + 1
        /\ result.date_range_days >= 1

\* C23: summarize_tasks puts every stored task in exactly one of pending
\* (done false) and completed (done true); stats.total = stats.pending +
\* stats.completed = the number of stored tasks; overdue is part of pending
\* and stats.overdue is its size.
C23_SummaryPartitions ==
    call.op = "summarize_tasks" =>
        /\ \A i \in DOMAIN Stored :
              /\ Among(Stored[i], result.pending) <=> ~Stored[i].done
              /\ Among(Stored[i], result.completed) <=> Stored[i].done
        /\ Len(result.pending) + Len(result.completed) = Len(Stored)
        /\ result.stats.total = Len(Stored)
        /\ result.stats.pending = Len(result.pending)
        /\ result.stats.completed = Len(result.completed)
        /\ result.stats.total = result.stats.pending + result.stats.completed
        /\ \A j \in DOMAIN result.overdue :
              Among(result.overdue[j], result.pending)
        /\ result.stats.overdue = Len(result.overdue)

\* C23 witness: one pending and one completed task were summarized
C23_Witness ==
    /\ call.op = "summarize_tasks"
    /\ Len(Stored) = 2
    /\ result.stats.pending = 1
    /\ result.stats.completed = 1

\* C24: summarize_tasks lists a stored task as overdue exactly when it is
\* not done, has a due_date, and the due_date is before today; on 2025-10-15
\* a pending task due 2025-10-10 is overdue and one due 2025-10-20 is not.
C24_OverdueIsStrictlyBeforeToday ==
    call.op = "summarize_tasks" =>
        /\ \A i \in DOMAIN Stored :
              Among(Stored[i], result.overdue) <=>
                  /\ ~Stored[i].done
                  /\ Stored[i].due_date # None
                  /\ DayOf(Stored[i].due_date) < clock \div TicksPerDay
        /\ \A j \in DOMAIN result.overdue : Among(result.overdue[j], Stored)
        /\ OnOct15 =>
              \A i \in DOMAIN Stored :
                  /\ (~Stored[i].done /\ Stored[i].due_date = <<2025, 10, 10>>)
                        => Among(Stored[i], result.overdue)
                  /\ Stored[i].due_date = <<2025, 10, 20>>
                        => ~Among(Stored[i], result.overdue)

\* C24 witness: on 2025-10-15, of a pending task due 2025-10-10 and a
\* pending task due today, the first alone is overdue
C24_Witness ==
    /\ call.op = "summarize_tasks"
    /\ OnOct15
    /\ Len(Stored) = 2
    /\ ~Stored[1].done /\ Stored[1].due_date = <<2025, 10, 10>>
    /\ ~Stored[2].done /\ Stored[2].due_date = <<2025, 10, 15>>
    /\ result.overdue = <<Stored[1]>>

\* C25: when add_task(title, t) has succeeded with a due-date text t, a
\* following tasks_by_date(t) returns the added task, and every task it
\* returns has the date t resolves to as its due_date.
C25_AddedTaskFoundByDate ==
    [][(/\ call.op = "add_task"
        /\ "task" \in DOMAIN result
        /\ call.due_date # <<>>
        /\ call'.op = "tasks_by_date"
        /\ call'.date = call.due_date) =>
            /\ "tasks" \in DOMAIN result'
            /\ result'.date = result.task.due_date
            /\ Among(result.task, result'.tasks)
            /\ \A j \in DOMAIN result'.tasks :
                  result'.tasks[j].due_date = result'.date]_vars

\* C25 witness: tasks_by_date("2025-10-20") found the one task due then
\* among two stored tasks
C25_Witness ==
    /\ call.op = "tasks_by_date"
    /\ call.date = <<"2025-10-20">>
    /\ Len(Stored) = 2
    /\ Stored[1].due_date # <<2025, 10, 20>>
    /\ "tasks" \in DOMAIN result
    /\ result.tasks = <<Stored[2]>>

====
